---- MODULE Spec2Model ----
(***************************************************************************)
(* convo_sync: the JSON cleaner (src/src/cleaners.py) and the Markdown     *)
(* converter (src/src/converters.py).                                      *)
(*                                                                         *)
(* A character is a one-character string and a text is a sequence of       *)
(* characters.  The string "zh" stands for one CJK ideograph of the range  *)
(* U+4E00..U+9FA5 and "tick" for the grave accent U+0060 (the fence        *)
(* delimiter); neither can be spelled in a string of this module.          *)
(***************************************************************************)
EXTENDS Integers, Sequences, FiniteSets, TLC

\* ------------------------------------------------------------------------
\* Characters and Python's string primitives
\* ------------------------------------------------------------------------

LowerLetters == <<"a","b","c","d","e","f","g","h","i","j","k","l","m","n","o","p","q","r","s","t","u","v","w","x","y","z">>

UpperLetters == <<"A","B","C","D","E","F","G","H","I","J","K","L","M","N","O","P","Q","R","S","T","U","V","W","X","Y","Z">>

DigitChars == {"0","1","2","3","4","5","6","7","8","9"}

\* [a-zA-Z]
IsLetter(c) == \E i \in 1..26 : c = LowerLetters[i] \/ c = UpperLetters[i]

\* [a-z0-9]
IsLowerAlnum(c) == (\E i \in 1..26 : c = LowerLetters[i]) \/ c \in DigitChars

\* \s, and the characters str.strip() removes
IsSpace(c) == c \in {" ", "\t", "\n", "\r", "\f"}

\* [U+4E00-U+9FA5]
IsCJK(c) == c = "zh"

\* \w (Unicode): letters, digits, the underscore, ideographs
IsWord(c) == IsLetter(c) \/ c \in DigitChars \/ c = "_" \/ IsCJK(c)

Tick == "tick"

IsTick(c) == c = Tick

lower_char(c) == IF \E i \in 1..26 : c = UpperLetters[i] THEN LowerLetters[CHOOSE i \in 1..26 : c = UpperLetters[i]] ELSE c

\* str.lower()
lower(s) == [i \in 1..Len(s) |-> lower_char(s[i])]

\* s[a..b-1] with 1-based a and exclusive b (s[a-1:b-1] in Python)
Slice(s, a, b) == SubSeq(s, a, b - 1)

\* the first index >= i whose character does not satisfy the class, Len(s)+1 if none
RECURSIVE SkipSpace(_, _)
SkipSpace(s, i) == IF i <= Len(s) /\ IsSpace(s[i]) THEN SkipSpace(s, i + 1) ELSE i

RECURSIVE SkipLetters(_, _)
SkipLetters(s, i) == IF i <= Len(s) /\ IsLetter(s[i]) THEN SkipLetters(s, i + 1) ELSE i

RECURSIVE SkipLowerAlnum(_, _)
SkipLowerAlnum(s, i) == IF i <= Len(s) /\ IsLowerAlnum(s[i]) THEN SkipLowerAlnum(s, i + 1) ELSE i

RECURSIVE SkipTicks(_, _)
SkipTicks(s, i) == IF i <= Len(s) /\ IsTick(s[i]) THEN SkipTicks(s, i + 1) ELSE i

\* the smallest e in lo..p such that s[e..p-1] is white space only
RECURSIVE BackSpace(_, _, _)
BackSpace(s, p, lo) == IF p > lo /\ IsSpace(s[p - 1]) THEN BackSpace(s, p - 1, lo) ELSE p

\* str.strip()
strip(s) == LET a == SkipSpace(s, 1) IN IF a > Len(s) THEN <<>> ELSE Slice(s, a, BackSpace(s, Len(s) + 1, a))

\* sub occurs in s at index i
OccursAt(s, sub, i) == i + Len(sub) - 1 <= Len(s) /\ \A k \in 1..Len(sub) : s[i + k - 1] = sub[k]

\* sub in s
Contains(s, sub) == \E i \in 1..(Len(s) + 1) : OccursAt(s, sub, i)

\* the first index >= i at which sub occurs in s, 0 if there is none (str.find)
RECURSIVE Find(_, _, _)
Find(s, sub, i) == IF i + Len(sub) - 1 > Len(s) THEN 0 ELSE IF OccursAt(s, sub, i) THEN i ELSE Find(s, sub, i + 1)

\* str.count(sub) from index i on: non-overlapping occurrences, left to right
RECURSIVE CountFrom(_, _, _)
CountFrom(s, sub, i) == LET p == Find(s, sub, i) IN IF p = 0 THEN 0 ELSE 1 + CountFrom(s, sub, p + Len(sub))

count(s, sub) == CountFrom(s, sub, 1)

\* n copies of the character c
Rep(c, n) == [i \in 1..n |-> c]

\* the concatenation of a sequence of texts ("".join)
RECURSIVE Join(_)
Join(ts) == IF ts = <<>> THEN <<>> ELSE Head(ts) \o Join(Tail(ts))

\* ------------------------------------------------------------------------
\* JSONCleaner._is_code_content and JSONCleaner._remove_code_blocks
\* ------------------------------------------------------------------------

\* the tags replace_code_block removes without looking at the content
known_languages ==
  {
    <<"p","y","t","h","o","n">>,
    <<"j","a","v","a","s","c","r","i","p","t">>,
    <<"t","y","p","e","s","c","r","i","p","t">>,
    <<"j","a","v","a">>,
    <<"c","p","p">>,
    <<"c">>,
    <<"r","u","s","t">>,
    <<"g","o">>,
    <<"r","u","b","y">>,
    <<"p","h","p">>,
    <<"s","h","e","l","l">>,
    <<"b","a","s","h">>,
    <<"s","q","l">>,
    <<"h","t","m","l">>,
    <<"c","s","s">>,
    <<"j","s","o","n">>,
    <<"y","a","m","l">>,
    <<"x","m","l">>,
    <<"m","a","r","k","d","o","w","n">>,
    <<"c","o","d","e">>
  }

code_keywords ==
  {
    <<"d","e","f"," ">>,
    <<"c","l","a","s","s"," ">>,
    <<"i","m","p","o","r","t"," ">>,
    <<"f","r","o","m"," ">>,
    <<"r","e","t","u","r","n"," ">>,
    <<"f","u","n","c","t","i","o","n"," ">>,
    <<"c","o","n","s","t"," ">>,
    <<"l","e","t"," ">>,
    <<"v","a","r"," ">>,
    <<"i","f"," ">>,
    <<"e","l","s","e"," ">>,
    <<"f","o","r"," ">>,
    <<"w","h","i","l","e"," ">>,
    <<"a","s","y","n","c"," ">>,
    <<"a","w","a","i","t"," ">>,
    <<"t","r","y"," ">>,
    <<"c","a","t","c","h"," ">>,
    <<"t","h","r","o","w"," ">>,
    <<"n","e","w"," ">>,
    <<"t","h","i","s",".">>,
    <<"s","e","l","f",".">>,
    <<"p","u","b","l","i","c"," ">>,
    <<"p","r","i","v","a","t","e"," ">>,
    <<"p","r","o","t","e","c","t","e","d"," ">>,
    <<"s","t","a","t","i","c"," ">>,
    <<"v","o","i","d"," ">>,
    <<"i","n","t"," ">>,
    <<"s","t","r","i","n","g"," ">>,
    <<"b","o","o","l"," ">>
  }

code_symbols ==
  <<
    <<"{">>,
    <<"}">>,
    <<"(",")">>,
    <<"[","]">>,
    <<"=",">">>,
    <<"-",">">>,
    <<"=","=">>,
    <<"!","=">>,
    <<"<","=">>,
    <<">","=">>
  >>

min_content_length == 10

symbol_per_line_threshold == 2

min_lines_for_indent_check == 3

\* content.split("\n")
RECURSIVE split_lines(_)
split_lines(s) == LET p == Find(s, <<"\n">>, 1) IN IF p = 0 THEN <<s>> ELSE <<Slice(s, 1, p)>> \o split_lines(Slice(s, p + 1, Len(s) + 1))

\* line.startswith(("    ", "\t"))
IsIndented(line) == OccursAt(line, <<" "," "," "," ">>, 1) \/ OccursAt(line, <<"\t">>, 1)

\* sum(content.count(symbol) for symbol in code_symbols), from the k-th symbol on
RECURSIVE SymbolCount(_, _)
SymbolCount(content, k) == IF k > Len(code_symbols) THEN 0 ELSE count(content, code_symbols[k]) + SymbolCount(content, k + 1)

\* re.search(r"\w+\([^)]*\)", content)
HasCall(content) == \E j \in 2..Len(content) : IsWord(content[j - 1]) /\ content[j] = "(" /\ \E k \in (j + 1)..Len(content) : content[k] = ")"

\* re.search(r"[U+4E00-U+9FA5]+\([^)]*\)", content)
HasCJKParen(content) == \E j \in 2..Len(content) : IsCJK(content[j - 1]) /\ content[j] = "(" /\ \E k \in (j + 1)..Len(content) : content[k] = ")"

\* _is_code_content taking a content for short up to and including min_content_length
_is_code_content_LongerThanMin(content) ==
  IF content = <<>> \/ Len(strip(content)) <= min_content_length THEN FALSE
  ELSE LET content_lower == lower(content)
           lines == split_lines(content)
           symbol_count == SymbolCount(content, 1)
           indented_lines == Cardinality({k \in 1..Len(lines) : IsIndented(lines[k])})
       IN \/ \E keyword \in code_keywords : Contains(content_lower, keyword)
          \/ symbol_count > symbol_per_line_threshold * Len(lines)
          \/ Len(lines) > min_lines_for_indent_check /\ 2 * indented_lines > Len(lines)
          \/ HasCall(content) /\ ~HasCJKParen(content)

\* indent_ratio_threshold is 0.5: indented / len(lines) > 0.5 is 2 * indented > len(lines)
_is_code_content(content) ==
  IF content = <<>> \/ Len(strip(content)) < min_content_length THEN FALSE
  ELSE LET content_lower == lower(content)
           lines == split_lines(content)
           symbol_count == SymbolCount(content, 1)
           indented_lines == Cardinality({k \in 1..Len(lines) : IsIndented(lines[k])})
       IN \/ \E keyword \in code_keywords : Contains(content_lower, keyword)
          \/ symbol_count > symbol_per_line_threshold * Len(lines)
          \/ Len(lines) > min_lines_for_indent_check /\ 2 * indented_lines > Len(lines)
          \/ HasCall(content) /\ ~HasCJKParen(content)

NoMatch == [ok |-> FALSE]

\* The pattern (T{3,})([a-zA-Z]*)\s*(.*?)\s*\1 (T the tick, DOTALL) tried at index
\* i with group 1 of n ticks.  Groups 2 and the first \s* are greedy and what
\* follows them accepts any text, so they are maximal; the lazy group 3 ends at
\* the first place from where white space and then n ticks follow.
FenceMatch(s, i, n) ==
  LET t == SkipLetters(s, i + n)
      cs == SkipSpace(s, t)
      p == Find(s, Rep(Tick, n), cs)
  IN IF p = 0 THEN NoMatch
     ELSE [ok |-> TRUE, start |-> i, language |-> Slice(s, i + n, t), content |-> Slice(s, cs, BackSpace(s, p, cs)), end |-> p + n]

\* group 1 is greedy: the whole run of ticks at i first, then shorter ones down to 3
RECURSIVE MatchAt(_, _, _)
MatchAt(s, i, n) == IF n < 3 THEN NoMatch ELSE LET m == FenceMatch(s, i, n) IN IF m.ok THEN m ELSE MatchAt(s, i, n - 1)

\* the leftmost match at or after index i
RECURSIVE SearchFence(_, _)
SearchFence(s, i) == IF i > Len(s) THEN NoMatch ELSE LET m == MatchAt(s, i, SkipTicks(s, i) - i) IN IF m.ok THEN m ELSE SearchFence(s, i + 1)

\* replace_code_block comparing the tag as written, without lower()
replace_code_block_CaseSensitive(m) ==
  IF m.language # <<>> /\ m.language \in known_languages THEN <<>>
  ELSE IF _is_code_content(m.content) THEN <<>>
  ELSE strip(m.content)

\* replace_code_block returning the kept content without strip()
replace_code_block_Unstripped(m) ==
  IF m.language # <<>> /\ lower(m.language) \in known_languages THEN <<>>
  ELSE IF _is_code_content(m.content) THEN <<>>
  ELSE m.content \o <<" ">>

replace_code_block(m) ==
  IF m.language # <<>> /\ lower(m.language) \in known_languages THEN <<>>
  ELSE IF _is_code_content(m.content) THEN <<>>
  ELSE strip(m.content)

\* re.sub(pattern, replace_code_block, text) from index pos on
RECURSIVE SubFences(_, _)
SubFences(s, pos) == LET m == SearchFence(s, pos) IN IF ~m.ok THEN Slice(s, pos, Len(s) + 1) ELSE Slice(s, pos, m.start) \o replace_code_block(m) \o SubFences(s, m.end)

_remove_code_blocks(text) == SubFences(text, 1)

\* ------------------------------------------------------------------------
\* MarkdownConverter._normalize_code_blocks and ._remove_thinking_sections
\* ------------------------------------------------------------------------

\* re.sub of a literal by a literal, from index pos on
RECURSIVE ReplaceAll(_, _, _, _)
ReplaceAll(s, sub, rep, pos) == LET p == Find(s, sub, pos) IN IF p = 0 THEN Slice(s, pos, Len(s) + 1) ELSE Slice(s, pos, p) \o rep \o ReplaceAll(s, sub, rep, p + Len(sub))

RECURSIVE SkipChar(_, _, _)
SkipChar(s, c, i) == IF i <= Len(s) /\ s[i] = c THEN SkipChar(s, c, i + 1) ELSE i

\* re.sub(c{3,}, rep, s) from index pos on: every maximal run of 3 or more c becomes rep
RECURSIVE CollapseRuns(_, _, _, _)
CollapseRuns(s, c, rep, pos) ==
  IF pos > Len(s) THEN <<>>
  ELSE LET e == SkipChar(s, c, pos)
       IN IF e - pos >= 3 THEN rep \o CollapseRuns(s, c, rep, e) ELSE <<s[pos]>> \o CollapseRuns(s, c, rep, pos + 1)

\* $ under re.MULTILINE: the end of the text or just before a newline
AtLineEnd(s, i) == i = Len(s) + 1 \/ (i <= Len(s) /\ s[i] = "\n")

\* ^ under re.MULTILINE
AtLineStart(s, i) == i = 1 \/ s[i - 1] = "\n"

\* the lazy group 3 followed by \n\1$: the first e >= cs with a newline at e, n
\* ticks after it and a line end after them; 0 if there is none
RECURSIVE FindClosingLine(_, _, _)
FindClosingLine(s, n, cs) ==
  IF cs + n > Len(s) THEN 0
  ELSE IF s[cs] = "\n" /\ OccursAt(s, Rep(Tick, n), cs + 1) /\ AtLineEnd(s, cs + 1 + n) THEN cs
  ELSE FindClosingLine(s, n, cs + 1)

\* \s*\n with the greedy \s* giving back: the newline of the pattern is tried at
\* u, the last newline of the white space first, then at earlier ones down to t
RECURSIVE BlockFrom(_, _, _, _, _)
BlockFrom(s, i, n, t, u) ==
  IF u < t THEN NoMatch
  ELSE IF s[u] # "\n" THEN BlockFrom(s, i, n, t, u - 1)
  ELSE LET e == FindClosingLine(s, n, u + 1)
       IN IF e = 0 THEN BlockFrom(s, i, n, t, u - 1)
          ELSE [ok |-> TRUE, start |-> i, language |-> Slice(s, i + n, t), content |-> Slice(s, u + 1, e), end |-> e + 1 + n]

\* ^(T{3,})([a-z0-9]*)\s*\n(.*?)\n\1$ at index i (MULTILINE, DOTALL).  Group 1
\* is the whole run (a tick cannot follow it) and group 2 is maximal.
BlockMatch(s, i) ==
  LET n == SkipTicks(s, i) - i
      t == SkipLowerAlnum(s, i + n)
  IN IF ~AtLineStart(s, i) \/ n < 3 THEN NoMatch ELSE BlockFrom(s, i, n, t, SkipSpace(s, t) - 1)

RECURSIVE SearchBlock(_, _)
SearchBlock(s, i) == IF i > Len(s) THEN NoMatch ELSE LET m == BlockMatch(s, i) IN IF m.ok THEN m ELSE SearchBlock(s, i + 1)

normalize_block(m) == Rep(Tick, 3) \o strip(lower(m.language)) \o <<"\n">> \o strip(m.content) \o <<"\n">> \o Rep(Tick, 3)

RECURSIVE SubBlocks(_, _)
SubBlocks(s, pos) == LET m == SearchBlock(s, pos) IN IF ~m.ok THEN Slice(s, pos, Len(s) + 1) ELSE Slice(s, pos, m.start) \o normalize_block(m) \o SubBlocks(s, m.end)

_normalize_code_blocks(text) ==
  LET first == SubBlocks(text, 1)
      merged == ReplaceAll(first, <<"\n">> \o Rep(Tick, 3) \o <<"\n">> \o Rep(Tick, 3) \o <<"\n">>, <<"\n">> \o Rep(Tick, 3) \o <<"\n">>, 1)
  IN CollapseRuns(merged, Tick, Rep(Tick, 3), 1)

RECURSIVE SkipNonStar(_, _)
SkipNonStar(s, i) == IF i <= Len(s) /\ s[i] # "*" THEN SkipNonStar(s, i + 1) ELSE i

\* \*\*[^*]+\*\*\n\n at index i: the index after it, 0 if it does not match
TitleEnd(s, i) ==
  LET t == SkipNonStar(s, i + 2)
  IN IF OccursAt(s, <<"*","*">>, i) /\ t > i + 2 /\ OccursAt(s, <<"*","*","\n","\n">>, t) THEN t + 4 ELSE 0

\* pattern: the title, then lazily up to and including the first \n\n\n
ThinkingMatch(s, i) ==
  LET cs == TitleEnd(s, i)
      p == IF cs = 0 THEN 0 ELSE Find(s, <<"\n","\n","\n">>, cs)
  IN IF p = 0 THEN NoMatch ELSE [ok |-> TRUE, start |-> i, end |-> p + 3]

\* (?=\n\n[^\n]|$) without re.MULTILINE: $ is the end of the text or just before
\* a newline that ends the text
RECURSIVE FindSectionEnd(_, _)
FindSectionEnd(s, q) ==
  IF q > Len(s) THEN q
  ELSE IF OccursAt(s, <<"\n","\n">>, q) /\ q + 2 <= Len(s) /\ s[q + 2] # "\n" THEN q
  ELSE IF q = Len(s) /\ s[q] = "\n" THEN q
  ELSE FindSectionEnd(s, q + 1)

\* pattern_end: the title, then lazily up to the lookahead
ThinkingEndMatch(s, i) == LET cs == TitleEnd(s, i) IN IF cs = 0 THEN NoMatch ELSE [ok |-> TRUE, start |-> i, end |-> FindSectionEnd(s, cs)]

RECURSIVE SubThinking(_, _)
SubThinking(s, pos) ==
  IF pos > Len(s) THEN <<>>
  ELSE LET m == ThinkingMatch(s, pos)
       IN IF m.ok THEN SubThinking(s, m.end) ELSE <<s[pos]>> \o SubThinking(s, pos + 1)

RECURSIVE SubThinkingEnd(_, _)
SubThinkingEnd(s, pos) ==
  IF pos > Len(s) THEN <<>>
  ELSE LET m == ThinkingEndMatch(s, pos)
       IN IF m.ok THEN SubThinkingEnd(s, m.end) ELSE <<s[pos]>> \o SubThinkingEnd(s, pos + 1)

_remove_thinking_sections(text) == strip(CollapseRuns(SubThinkingEnd(SubThinking(text, 1), 1), "\n", <<"\n","\n">>, 1))

\* ==== state machine
\* ------------------------------------------------------------------------
\* The documents the runs read
\* ------------------------------------------------------------------------

TextHi == <<"h","i">>

TextCode == <<Tick,Tick,Tick,"p","y","t","h","o","n","\n","x","\n",Tick,Tick,Tick>>

TextMixed == <<"a"," ",Tick,Tick,Tick,"g","o","\n","x","\n",Tick,Tick,Tick," ","b">>

TextThinking == <<"*","*","T","*","*","\n","\n","x">>

TextThinkingThen == <<"*","*","T","*","*","\n","\n","x","\n","\n","\n","y">>

TextFence == <<Tick,Tick,Tick,Tick,"p","y","\n","x","\n",Tick,Tick,Tick,Tick>>

TextBlank == <<" ">>

PartHow == <<"H","o","w">>

PartAre == <<" ","a","r","e">>

PartYou == <<" ","y","o","u","?">>

RoleUser == <<"u","s","e","r">>

RoleModel == <<"m","o","d","e","l">>

RoleUserCap == <<"U","s","e","r">>

RoleSystem == <<"s","y","s","t","e","m">>

RoleUnknown == <<"u","n","k","n","o","w","n">>

LabelHuman == <<"H","u","m","a","n">>

LabelAssistant == <<"A","s","s","i","s","t","a","n","t">>

\* the JSON value null, where a string is expected: a value that is not a text
\* (its one element is not a character)
JsonNull == <<"null">>

\* isinstance(v, str)
IsString(v) == v # JsonNull

\* the chunks of a chunkedPrompt document
ChunkUniverse ==
  {
    [role |-> RoleUser, text |-> TextHi],
    [role |-> RoleModel, text |-> TextThinkingThen, tokenCount |-> 5],
    [role |-> RoleUser, text |-> TextCode],
    [role |-> RoleModel, text |-> TextHi, isThought |-> TRUE],
    [role |-> RoleUser, text |-> TextCode, isThought |-> TRUE, driveDocument |-> 1],
    [role |-> RoleUser, parts |-> <<[text |-> PartHow], [text |-> PartAre, thought |-> TRUE], [text |-> PartYou]>>],
    [role |-> RoleModel, parts |-> <<[text |-> TextHi, thought |-> TRUE]>>, isThought |-> FALSE],
    [role |-> RoleModel, text |-> TextThinking],
    [role |-> RoleUserCap, text |-> TextFence],
    [role |-> RoleSystem, tokenCount |-> 5],
    [role |-> RoleUser, parts |-> <<[text |-> TextCode]>>],
    [text |-> TextMixed],
    [role |-> RoleUser, text |-> JsonNull]
  }

\* the entries of a conversations document
EntryUniverse ==
  {
    [role |-> RoleUser, text |-> TextHi],
    [role |-> RoleModel, text |-> TextThinkingThen],
    [role |-> RoleModel, text |-> TextThinking],
    [role |-> RoleUser, text |-> TextThinkingThen],
    [role |-> RoleUser, chunkedPrompt |-> [chunks |-> <<[parts |-> <<[text |-> PartHow]>>], [parts |-> <<[text |-> PartAre]>>], [parts |-> <<[text |-> PartYou]>>]>>]],
    [role |-> RoleUserCap, text |-> TextFence],
    [text |-> TextBlank],
    [role |-> RoleUser, text |-> JsonNull]
  }

MaxChunks == 2

Lists(S, n) == UNION {[1..k -> S] : k \in 0..n}

\* a parsed JSON document of one of the two shapes, or of neither
Documents ==
  {[chunkedPrompt |-> [chunks |-> cs]] : cs \in Lists(ChunkUniverse, MaxChunks)}
    \cup {[runSettings |-> 1, chunkedPrompt |-> [chunks |-> <<c>>]] : c \in ChunkUniverse}
    \cup {[conversations |-> es] : es \in Lists(EntryUniverse, MaxChunks)}
    \cup {[runSettings |-> 1], [chunkedPrompt |-> <<>>]}

\* the texts _remove_code_blocks is applied to on its own
\* a call between spaces: short (7 characters trimmed) once, code when repeated
TextCall == <<" ","f","(","x",","," ","y",")"," ">>

Tokens == {Rep(Tick, 3), Rep(Tick, 4), <<"x">>, <<"C">>, <<"\n">>, TextCall}

MaxTokens == 6

TokenTexts == {Join(ts) : ts \in Lists(Tokens, MaxTokens)}

\* the words the contents given to the classifier are made of: a keyword in
\* mixed case, two symbols, a new line that is indented, a call, a parenthesis
\* after an ideograph, prose
ClassifyWords ==
  {
    <<"I","f"," ">>,
    <<"{","}">>,
    <<"\n","\t","a","b">>,
    <<"f","(","x",")">>,
    <<"zh","(","x",")">>,
    <<"a","b","c","d">>
  }

MaxWords == 4

\* fenced spans without tag or with a tag that is no known language
ClassifyTexts == {Rep(Tick, 3) \o tag \o <<"\n">> \o Join(ws) \o <<"\n">> \o Rep(Tick, 3) : tag \in {<<>>, <<"x">>}, ws \in Lists(ClassifyWords, MaxWords)}

\* the pieces the texts given to _normalize_code_blocks are made of: two
\* delimiter runs, a tag in lower case and one with an upper-case letter, a
\* newline, a content with white space around it
FenceWords == {Rep(Tick, 3), Rep(Tick, 4), <<"p","y">>, <<"P","y">>, <<"\n">>, <<" ","x"," ">>}

MaxParts == 6

FenceTexts == {Join(ws) : ws \in Lists(FenceWords, MaxParts)}

\* the pieces the texts given to _remove_thinking_sections are made of: a bold
\* title, a newline, a paragraph break, two words
ThinkingWords == {<<"*","*","T","*","*">>, <<"\n">>, <<"\n","\n">>, <<"x">>, <<"y">>}

MaxPieces == 6

ThinkingTexts == {Join(ws) : ws \in Lists(ThinkingWords, MaxPieces)}

\* the pieces of the path of the input file: a name, the extension the
\* defaults look for, a dot, another extension
PathWords == {<<"a">>, <<".","j","s","o","n">>, <<".">>, <<"t","x","t">>}

MaxPathParts == 4

InputPaths == {Join(ws) : ws \in Lists(PathWords, MaxPathParts) \ {<<>>}}

\* ------------------------------------------------------------------------
\* State
\* ------------------------------------------------------------------------

VARIABLES
  command,             \* the subcommand of convo_sync.py that runs
  input_file,          \* the parsed content of the input JSON file
  remove_thinking,     \* JSONCleaner.remove_thinking
  remove_code_blocks,  \* JSONCleaner.remove_code_blocks
  md_remove_thinking,  \* MarkdownConverter.remove_thinking
  pc,                  \* where the run stands
  i,                   \* the index of the chunk _process_chunks looks at next
  cleaned_chunks,      \* the list _process_chunks builds
  origin,              \* history: the input index of each element of cleaned_chunks
  output_file,         \* the cleaned JSON file
  conversations,       \* the list convert() iterates over
  j,                   \* the index of the record convert() looks at next
  output_md_file,      \* the Markdown file: the total of its header and its sections
  section_origin,      \* history: the record index of each section
  message_counter,     \* MarkdownConverter.message_counter
  calls,               \* history: the calls of convert() made on the converter
  text,                \* the argument of a call of a method that takes a text
  stripped,            \* the result of _remove_code_blocks on it
  restripped,          \* the result of a second call on the result
  normalized,          \* the result of _normalize_code_blocks on it
  without_thinking,    \* the result of _remove_thinking_sections on it
  input_path,          \* args.input: the path of the input file
  clean_output,        \* the path clean() writes to
  md_output            \* the path convert() writes to

cleanerVars == <<remove_thinking, remove_code_blocks, i, cleaned_chunks, origin, output_file>>

converterVars == <<md_remove_thinking, conversations, j, output_md_file, section_origin, message_counter, calls>>

stripVars == <<text, stripped, restripped>>

textVars == <<normalized, without_thinking>>

pathVars == <<input_path, clean_output, md_output>>

vars == <<command, input_file, pc, cleanerVars, converterVars, stripVars, textVars, pathVars>>

NoFile == [exists |-> FALSE]

\* dict.get(key, default)
Get(d, key, default) == IF key \in DOMAIN d THEN d[key] ELSE default

\* the entries of d under the given keys
Restrict(d, keys) == [k \in (DOMAIN d \cap keys) |-> d[k]]

\* ------------------------------------------------------------------------
\* JSONCleaner
\* ------------------------------------------------------------------------

RECURSIVE _process_parts(_)
_process_parts(parts) ==
  IF Len(parts) = 0 THEN <<>>
  ELSE LET part == Head(parts)
           rest == _process_parts(Tail(parts))
       IN IF remove_thinking /\ Get(part, "thought", FALSE) THEN rest
          ELSE IF "text" \in DOMAIN part THEN <<[text |-> IF remove_code_blocks THEN _remove_code_blocks(part.text) ELSE part.text]>> \o rest
          ELSE rest

\* _process_single_chunk storing the parts list also when it is empty
_process_single_chunk_KeepEmptyParts(chunk) ==
  LET basic == Restrict(chunk, {"role", "tokenCount"})
      cleaned_chunk ==
        IF "text" \in DOMAIN chunk THEN basic @@ [text |-> IF remove_code_blocks THEN _remove_code_blocks(chunk.text) ELSE chunk.text]
        ELSE IF "parts" \in DOMAIN chunk THEN basic @@ [parts |-> _process_parts(chunk.parts)]
        ELSE basic
  IN IF "text" \notin DOMAIN cleaned_chunk /\ "parts" \notin DOMAIN cleaned_chunk THEN <<>> ELSE <<cleaned_chunk>>

\* _process_single_chunk copying the role only
_process_single_chunk_RoleOnly(chunk) ==
  LET basic == Restrict(chunk, {"role"})
      cleaned_chunk ==
        IF "text" \in DOMAIN chunk THEN basic @@ [text |-> IF remove_code_blocks THEN _remove_code_blocks(chunk.text) ELSE chunk.text]
        ELSE IF "parts" \in DOMAIN chunk /\ Len(_process_parts(chunk.parts)) > 0 THEN basic @@ [parts |-> _process_parts(chunk.parts)]
        ELSE basic
  IN IF "text" \notin DOMAIN cleaned_chunk /\ "parts" \notin DOMAIN cleaned_chunk THEN <<>> ELSE <<cleaned_chunk>>

\* the result is <<>> for None and a one-element list for a chunk
_process_single_chunk(chunk) ==
  LET basic == Restrict(chunk, {"role", "tokenCount"})
      cleaned_chunk ==
        IF "text" \in DOMAIN chunk THEN basic @@ [text |-> IF remove_code_blocks THEN _remove_code_blocks(chunk.text) ELSE chunk.text]
        ELSE IF "parts" \in DOMAIN chunk /\ Len(_process_parts(chunk.parts)) > 0 THEN basic @@ [parts |-> _process_parts(chunk.parts)]
        ELSE basic
  IN IF "text" \notin DOMAIN cleaned_chunk /\ "parts" \notin DOMAIN cleaned_chunk THEN <<>> ELSE <<cleaned_chunk>>

\* re.sub raises TypeError in _process_parts: a part that is not skipped has a
\* text that is not a string and remove_code_blocks is on
_process_parts_raises(parts) ==
  remove_code_blocks /\ \E n \in 1..Len(parts) :
    ~(remove_thinking /\ Get(parts[n], "thought", FALSE)) /\ "text" \in DOMAIN parts[n] /\ ~IsString(parts[n].text)

\* re.sub raises TypeError in _process_single_chunk or in _process_parts
_process_single_chunk_raises(chunk) ==
  IF "text" \in DOMAIN chunk THEN remove_code_blocks /\ ~IsString(chunk.text)
  ELSE "parts" \in DOMAIN chunk /\ _process_parts_raises(chunk.parts)

\* the iteration of the loop of _process_chunks raises
ProcessChunksRaises(chunk) ==
  /\ "driveDocument" \notin DOMAIN chunk
  /\ ~(remove_thinking /\ Get(chunk, "isThought", FALSE))
  /\ _process_single_chunk_raises(chunk)

\* the loop body with the thinking test placed before the driveDocument test
ProcessChunksBody_ThinkingFirst(chunk) ==
  IF remove_thinking /\ Get(chunk, "isThought", FALSE) THEN <<>>
  ELSE IF "driveDocument" \in DOMAIN chunk THEN <<chunk>>
  ELSE _process_single_chunk(chunk)

\* the loop body without the thinking test
ProcessChunksBody_NoThinkingTest(chunk) ==
  IF "driveDocument" \in DOMAIN chunk THEN <<chunk>>
  ELSE _process_single_chunk(chunk)

\* one iteration of the loop of _process_chunks: what it appends for the chunk
ProcessChunksBody(chunk) ==
  IF "driveDocument" \in DOMAIN chunk THEN <<chunk>>
  ELSE IF remove_thinking /\ Get(chunk, "isThought", FALSE) THEN <<>>
  ELSE _process_single_chunk(chunk)

\* chunked_prompt.get("chunks", [])
InputChunks == Get(input_file.chunkedPrompt, "chunks", <<>>)

\* the dictionary _process_google_ai_studio_format returns
cleaned_data ==
  Restrict(input_file, {"runSettings", "systemInstruction"})
    @@ (IF "chunkedPrompt" \in DOMAIN input_file THEN [chunkedPrompt |-> [chunks |-> cleaned_chunks]] ELSE <<>>)

\* clean(): _load_json_file and _process_google_ai_studio_format up to the loop
clean_start ==
  /\ pc = "clean"
  /\ pc' = IF "chunkedPrompt" \in DOMAIN input_file THEN "process_chunks" ELSE "save"
  /\ i' = 1 /\ cleaned_chunks' = <<>> /\ origin' = <<>>
  /\ UNCHANGED <<command, input_file, remove_thinking, remove_code_blocks, output_file, converterVars, stripVars, textVars, pathVars>>

\* one iteration of the loop of _process_chunks; an exception ends clean()
\* before anything is saved
process_chunk ==
  /\ pc = "process_chunks" /\ i <= Len(InputChunks)
  /\ IF ProcessChunksRaises(InputChunks[i])
     THEN /\ pc' = "clean_error"
          /\ UNCHANGED <<cleaned_chunks, origin, i>>
     ELSE /\ cleaned_chunks' = cleaned_chunks \o ProcessChunksBody(InputChunks[i])
          /\ origin' = IF Len(ProcessChunksBody(InputChunks[i])) = 0 THEN origin ELSE Append(origin, i)
          /\ i' = i + 1
          /\ pc' = pc
  /\ UNCHANGED <<command, input_file, remove_thinking, remove_code_blocks, output_file, converterVars, stripVars, textVars, pathVars>>

\* the end of _process_google_ai_studio_format, and _save_json_file
save ==
  /\ pc = "save" \/ (pc = "process_chunks" /\ i > Len(InputChunks))
  /\ output_file' = [exists |-> TRUE, data |-> cleaned_data]
  /\ pc' = IF command = "pipeline" THEN "convert" ELSE "done"
  /\ UNCHANGED <<command, input_file, remove_thinking, remove_code_blocks, i, cleaned_chunks, origin, converterVars, stripVars, textVars, pathVars>>

\* sum(1 for c in chunks if c.get("role") == role)
CountRole(chunks, role) == Cardinality({n \in 1..Len(chunks) : "role" \in DOMAIN chunks[n] /\ chunks[n].role = role})

\* get_stats of the cleaner: it reads the file clean() wrote
JSONCleaner_get_stats ==
  LET chunks == Get(Get(output_file.data, "chunkedPrompt", <<>>), "chunks", <<>>)
  IN [ total |-> Len(chunks),
       users |-> CountRole(chunks, RoleUser),
       models |-> CountRole(chunks, RoleModel),
       files |-> Cardinality({n \in 1..Len(chunks) : "driveDocument" \in DOMAIN chunks[n]}),
       thinking_removed |-> remove_thinking,
       code_blocks_removed |-> remove_code_blocks ]

\* ------------------------------------------------------------------------
\* MarkdownConverter
\* ------------------------------------------------------------------------

\* the record _load_conversations makes of a chunk
ChunkToConversation(chunk) ==
  [ role |-> Get(chunk, "role", RoleUnknown),
    text |-> IF "text" \in DOMAIN chunk THEN chunk.text
             ELSE IF "parts" \in DOMAIN chunk THEN Join([k \in 1..Len(chunk.parts) |-> Get(chunk.parts[k], "text", <<>>)])
             ELSE <<>> ]

\* "".join raises TypeError: the chunk has no text and a part whose text is not a string
ChunkToConversationRaises(chunk) ==
  /\ "text" \notin DOMAIN chunk /\ "parts" \in DOMAIN chunk
  /\ \E n \in 1..Len(chunk.parts) : "text" \in DOMAIN chunk.parts[n] /\ ~IsString(chunk.parts[n].text)

\* ok is FALSE where the method raises: ValueError for a document of neither
\* shape, TypeError from the join of the parts
_load_conversations(data) ==
  IF "conversations" \in DOMAIN data THEN [ok |-> TRUE, conversations |-> data.conversations]
  ELSE IF "chunkedPrompt" \in DOMAIN data /\ "chunks" \in DOMAIN data.chunkedPrompt
    THEN IF \E k \in 1..Len(data.chunkedPrompt.chunks) : ChunkToConversationRaises(data.chunkedPrompt.chunks[k])
         THEN [ok |-> FALSE, conversations |-> <<>>]
         ELSE [ok |-> TRUE, conversations |-> [k \in 1..Len(data.chunkedPrompt.chunks) |-> ChunkToConversation(data.chunkedPrompt.chunks[k])]]
  ELSE [ok |-> FALSE, conversations |-> <<>>]

upper_char(c) == IF \E k \in 1..26 : c = LowerLetters[k] THEN UpperLetters[CHOOSE k \in 1..26 : c = LowerLetters[k]] ELSE c

\* str.capitalize()
capitalize(s) == IF Len(s) = 0 THEN s ELSE <<upper_char(s[1])>> \o lower(Tail(s))

\* the loop body without the second test for an empty text
ConvertBody_NoSecondSkip(conv) ==
  LET role == lower(Get(conv, "role", RoleUnknown))
      trimmed == strip(Get(conv, "text", <<>>))
      thinned == IF md_remove_thinking /\ role = RoleModel THEN _remove_thinking_sections(trimmed) ELSE trimmed
  IN IF Len(trimmed) = 0 THEN [emit |-> FALSE]
     ELSE [emit |-> TRUE, role |-> role, text |-> _normalize_code_blocks(thinned)]

\* the loop body raises AttributeError: the role has no lower(), or the text no
\* strip(), because it is not a string
ConvertBodyRaises(conv) == ~IsString(Get(conv, "role", RoleUnknown)) \/ ~IsString(Get(conv, "text", <<>>))

\* the loop body removing thinking sections whatever the role
ConvertBody_AnyRole(conv) ==
  LET role == lower(Get(conv, "role", RoleUnknown))
      trimmed == strip(Get(conv, "text", <<>>))
      thinned == IF md_remove_thinking THEN _remove_thinking_sections(trimmed) ELSE trimmed
  IN IF Len(trimmed) = 0 THEN [emit |-> FALSE]
     ELSE IF Len(strip(thinned)) = 0 THEN [emit |-> FALSE]
     ELSE [emit |-> TRUE, role |-> role, text |-> _normalize_code_blocks(thinned)]

\* one iteration of the loop of convert(): emit is FALSE where it continues
\* without writing, else role and text are what the section is written from
ConvertBody(conv) ==
  LET role == lower(Get(conv, "role", RoleUnknown))
      trimmed == strip(Get(conv, "text", <<>>))
      thinned == IF md_remove_thinking /\ role = RoleModel THEN _remove_thinking_sections(trimmed) ELSE trimmed
  IN IF Len(trimmed) = 0 THEN [emit |-> FALSE]
     ELSE IF Len(strip(thinned)) = 0 THEN [emit |-> FALSE]
     ELSE [emit |-> TRUE, role |-> role, text |-> _normalize_code_blocks(thinned)]

\* _write_user_message, _write_assistant_message, _write_other_message
Section(role, body) ==
  [ label |-> IF role = RoleUser THEN LabelHuman ELSE IF role = RoleModel THEN LabelAssistant ELSE capitalize(role),
    text |-> body ]

\* the file convert() reads: the input of the command convert, else the file
\* clean() wrote (json.dump then json.load gives back an equal document of
\* dictionaries, lists, strings, numbers and booleans)
input_json_file == IF command = "convert" THEN input_file ELSE output_file.data

\* the documents a file may hold when convert() is called again
Rewrites ==
  {[conversations |-> <<e>>] : e \in EntryUniverse}
    \cup {[chunkedPrompt |-> [chunks |-> <<c>>]] : c \in ChunkUniverse}
    \cup {[runSettings |-> 1]}

MaxCalls == 2

\* {"user": 0, "model": 0}
NoMessages == [user |-> 0, model |-> 0]

\* the total of the header counting only the records with a text that is not blank
total_messages_NonBlank(convs) == Cardinality({k \in 1..Len(convs) : Len(strip(Get(convs[k], "text", <<>>))) > 0})

\* the total the header states: len(conversations)
total_messages(convs) == Len(convs)

\* get_stats of the converter
MarkdownConverter_get_stats ==
  [users |-> message_counter.user, models |-> message_counter.model, total |-> message_counter.user + message_counter.model]

\* convert() up to the loop, the counter left as the call before left it
convert_start_NoReset ==
  /\ pc = "convert"
  /\ calls' = calls + 1
  /\ LET loaded == _load_conversations(input_json_file)
     IN IF loaded.ok
        THEN /\ conversations' = loaded.conversations
             /\ message_counter' = message_counter
             /\ output_md_file' = [exists |-> TRUE, total |-> total_messages(loaded.conversations), sections |-> <<>>]
             /\ section_origin' = <<>>
             /\ j' = 1
             /\ pc' = "render"
        ELSE /\ pc' = "error"
             /\ UNCHANGED <<conversations, message_counter, output_md_file, section_origin, j>>
  /\ UNCHANGED <<command, input_file, md_remove_thinking, cleanerVars, stripVars, textVars, pathVars>>

\* convert() up to the loop: load, reset the counter, open the file, write the header
convert_start ==
  /\ pc = "convert"
  /\ calls' = calls + 1
  /\ LET loaded == _load_conversations(input_json_file)
     IN IF loaded.ok
        THEN /\ conversations' = loaded.conversations
             /\ message_counter' = NoMessages
             /\ output_md_file' = [exists |-> TRUE, total |-> total_messages(loaded.conversations), sections |-> <<>>]
             /\ section_origin' = <<>>
             /\ j' = 1
             /\ pc' = "render"
        ELSE /\ pc' = "error"
             /\ UNCHANGED <<conversations, message_counter, output_md_file, section_origin, j>>
  /\ UNCHANGED <<command, input_file, md_remove_thinking, cleanerVars, stripVars, textVars, pathVars>>

\* one iteration of the loop of convert(); an exception ends convert() with
\* the file as it is written so far
convert_record ==
  /\ pc = "render" /\ j <= Len(conversations)
  /\ IF ConvertBodyRaises(conversations[j])
     THEN /\ pc' = "error"
          /\ UNCHANGED <<message_counter, output_md_file, section_origin, j>>
     ELSE /\ LET r == ConvertBody(conversations[j])
             IN IF r.emit
                THEN /\ message_counter' = IF r.role = RoleUser THEN [message_counter EXCEPT !.user = @ + 1]
                                           ELSE IF r.role = RoleModel THEN [message_counter EXCEPT !.model = @ + 1]
                                           ELSE message_counter
                     /\ output_md_file' = [output_md_file EXCEPT !.sections = Append(@, Section(r.role, r.text))]
                     /\ section_origin' = Append(section_origin, j)
                ELSE UNCHANGED <<message_counter, output_md_file, section_origin>>
          /\ j' = j + 1
          /\ pc' = pc
  /\ UNCHANGED <<command, input_file, md_remove_thinking, conversations, calls, cleanerVars, stripVars, textVars, pathVars>>

\* the end of the loop: the file is closed and its path returned
convert_return ==
  /\ pc = "render" /\ j > Len(conversations)
  /\ pc' = "done"
  /\ UNCHANGED <<command, input_file, cleanerVars, converterVars, stripVars, textVars, pathVars>>

\* convert() is called once more on the converter: the input file is as it was
\* or was written anew in between
convert_again ==
  /\ pc \in {"done", "error"} /\ command = "convert" /\ calls < MaxCalls
  /\ input_file' \in Rewrites \cup {input_file}
  /\ pc' = "convert"
  /\ UNCHANGED <<command, cleanerVars, converterVars, stripVars, textVars, pathVars>>

\* ------------------------------------------------------------------------
\* The runs of the commands clean, convert and pipeline
\* ------------------------------------------------------------------------

Init ==
  /\ command \in {"clean", "convert", "pipeline"}
  /\ input_file \in Documents
  /\ remove_thinking \in (IF command = "convert" THEN {TRUE} ELSE BOOLEAN)
  /\ remove_code_blocks \in (IF command = "convert" THEN {TRUE} ELSE BOOLEAN)
  /\ md_remove_thinking \in (IF command = "clean" THEN {TRUE} ELSE BOOLEAN)
  /\ pc = IF command = "convert" THEN "convert" ELSE "clean"
  /\ i = 1 /\ cleaned_chunks = <<>> /\ origin = <<>> /\ output_file = NoFile
  /\ conversations = <<>> /\ j = 1 /\ output_md_file = NoFile /\ section_origin = <<>>
  /\ message_counter = NoMessages /\ calls = 0
  /\ text = <<>> /\ stripped = <<>> /\ restripped = <<>>
  /\ normalized = <<>> /\ without_thinking = <<>>
  /\ input_path = <<>> /\ clean_output = <<>> /\ md_output = <<>>

Next == clean_start \/ process_chunk \/ save \/ convert_start \/ convert_record \/ convert_return

Spec == Init /\ [][Next]_vars

\* ------------------------------------------------------------------------
\* _remove_code_blocks called on a text, and again on its result
\* ------------------------------------------------------------------------

strip_code ==
  /\ pc = "strip"
  /\ stripped' = _remove_code_blocks(text)
  /\ pc' = "strip_again"
  /\ UNCHANGED <<command, input_file, cleanerVars, converterVars, text, restripped, textVars, pathVars>>

strip_code_again ==
  /\ pc = "strip_again"
  /\ restripped' = _remove_code_blocks(stripped)
  /\ pc' = "stripped"
  /\ UNCHANGED <<command, input_file, cleanerVars, converterVars, text, stripped, textVars, pathVars>>

InitStrip ==
  /\ command = "none"
  /\ input_file = [runSettings |-> 1]
  /\ remove_thinking = TRUE /\ remove_code_blocks = TRUE /\ md_remove_thinking = TRUE
  /\ pc = "strip"
  /\ i = 1 /\ cleaned_chunks = <<>> /\ origin = <<>> /\ output_file = NoFile
  /\ conversations = <<>> /\ j = 1 /\ output_md_file = NoFile /\ section_origin = <<>>
  /\ message_counter = NoMessages /\ calls = 0
  /\ text \in TokenTexts /\ stripped = <<>> /\ restripped = <<>>
  /\ normalized = <<>> /\ without_thinking = <<>>
  /\ input_path = <<>> /\ clean_output = <<>> /\ md_output = <<>>

NextStrip == strip_code \/ strip_code_again

SpecStrip == InitStrip /\ [][NextStrip]_vars

\* ------------------------------------------------------------------------
\* _remove_code_blocks called on a fenced span the classifier decides on
\* ------------------------------------------------------------------------

InitClassify ==
  /\ command = "none"
  /\ input_file = [runSettings |-> 1]
  /\ remove_thinking = TRUE /\ remove_code_blocks = TRUE /\ md_remove_thinking = TRUE
  /\ pc = "strip"
  /\ i = 1 /\ cleaned_chunks = <<>> /\ origin = <<>> /\ output_file = NoFile
  /\ conversations = <<>> /\ j = 1 /\ output_md_file = NoFile /\ section_origin = <<>>
  /\ message_counter = NoMessages /\ calls = 0
  /\ text \in ClassifyTexts /\ stripped = <<>> /\ restripped = <<>>
  /\ normalized = <<>> /\ without_thinking = <<>>
  /\ input_path = <<>> /\ clean_output = <<>> /\ md_output = <<>>

SpecClassify == InitClassify /\ [][NextStrip]_vars

\* ------------------------------------------------------------------------
\* The output paths of a run that is given none
\* ------------------------------------------------------------------------

\* input_file.replace(".json", ".cleaned.json")
default_clean_output(path) == ReplaceAll(path, <<".","j","s","o","n">>, <<".","c","l","e","a","n","e","d",".","j","s","o","n">>, 1)

\* input_json_file.replace(".json", ".md")
default_output(path) == ReplaceAll(path, <<".","j","s","o","n">>, <<".","m","d">>, 1)

\* args.clean_output or ..., with no --clean-output; JSONCleaner.__init__
\* computes the same for handle_clean
derive_clean_output ==
  /\ pc = "paths"
  /\ clean_output' = default_clean_output(input_path)
  /\ pc' = "paths_md"
  /\ UNCHANGED <<command, input_file, cleanerVars, converterVars, stripVars, textVars, input_path, md_output>>

\* args.md_output or ..., with no --md-output; MarkdownConverter.__init__
\* computes the same for handle_convert
derive_md_output ==
  /\ pc = "paths_md"
  /\ md_output' = default_output(input_path)
  /\ pc' = "paths_done"
  /\ UNCHANGED <<command, input_file, cleanerVars, converterVars, stripVars, textVars, input_path, clean_output>>

InitPaths ==
  /\ command = "none"
  /\ input_file = [runSettings |-> 1]
  /\ remove_thinking = TRUE /\ remove_code_blocks = TRUE /\ md_remove_thinking = TRUE
  /\ pc = "paths"
  /\ i = 1 /\ cleaned_chunks = <<>> /\ origin = <<>> /\ output_file = NoFile
  /\ conversations = <<>> /\ j = 1 /\ output_md_file = NoFile /\ section_origin = <<>>
  /\ message_counter = NoMessages /\ calls = 0
  /\ text = <<>> /\ stripped = <<>> /\ restripped = <<>>
  /\ normalized = <<>> /\ without_thinking = <<>>
  /\ input_path \in InputPaths /\ clean_output = <<>> /\ md_output = <<>>

NextPaths == derive_clean_output \/ derive_md_output

SpecPaths == InitPaths /\ [][NextPaths]_vars

\* ------------------------------------------------------------------------
\* _normalize_code_blocks called on a text
\* ------------------------------------------------------------------------

normalize_text ==
  /\ pc = "normalize"
  /\ normalized' = _normalize_code_blocks(text)
  /\ pc' = "normalized"
  /\ UNCHANGED <<command, input_file, cleanerVars, converterVars, stripVars, without_thinking, pathVars>>

InitNormalize ==
  /\ command = "none"
  /\ input_file = [runSettings |-> 1]
  /\ remove_thinking = TRUE /\ remove_code_blocks = TRUE /\ md_remove_thinking = TRUE
  /\ pc = "normalize"
  /\ i = 1 /\ cleaned_chunks = <<>> /\ origin = <<>> /\ output_file = NoFile
  /\ conversations = <<>> /\ j = 1 /\ output_md_file = NoFile /\ section_origin = <<>>
  /\ message_counter = NoMessages /\ calls = 0
  /\ text \in FenceTexts /\ stripped = <<>> /\ restripped = <<>>
  /\ normalized = <<>> /\ without_thinking = <<>>
  /\ input_path = <<>> /\ clean_output = <<>> /\ md_output = <<>>

NextNormalize == normalize_text

SpecNormalize == InitNormalize /\ [][NextNormalize]_vars

\* ------------------------------------------------------------------------
\* _remove_thinking_sections called on the text of a model record
\* ------------------------------------------------------------------------

remove_thinking_text ==
  /\ pc = "remove_thinking"
  /\ without_thinking' = _remove_thinking_sections(text)
  /\ pc' = "removed_thinking"
  /\ UNCHANGED <<command, input_file, cleanerVars, converterVars, stripVars, normalized, pathVars>>

InitThinking ==
  /\ command = "none"
  /\ input_file = [runSettings |-> 1]
  /\ remove_thinking = TRUE /\ remove_code_blocks = TRUE /\ md_remove_thinking = TRUE
  /\ pc = "remove_thinking"
  /\ i = 1 /\ cleaned_chunks = <<>> /\ origin = <<>> /\ output_file = NoFile
  /\ conversations = <<>> /\ j = 1 /\ output_md_file = NoFile /\ section_origin = <<>>
  /\ message_counter = NoMessages /\ calls = 0
  /\ text \in ThinkingTexts /\ stripped = <<>> /\ restripped = <<>>
  /\ normalized = <<>> /\ without_thinking = <<>>
  /\ input_path = <<>> /\ clean_output = <<>> /\ md_output = <<>>

NextThinking == remove_thinking_text

SpecThinking == InitThinking /\ [][NextThinking]_vars

\* ------------------------------------------------------------------------
\* convert() called again and again on one MarkdownConverter
\* ------------------------------------------------------------------------

InitRerun == Init /\ command = "convert"

NextRerun == convert_start \/ convert_record \/ convert_return \/ convert_again

SpecRerun == InitRerun /\ [][NextRerun]_vars

\* ------------------------------------------------------------------------
\* Properties of the cleaner and the converter (under Spec)
\* ------------------------------------------------------------------------

\* the indices of the input chunks the loop of _process_chunks has gone through
Processed == IF "chunkedPrompt" \in DOMAIN input_file THEN 1..(i - 1) ELSE {}

\* the output positions that come from input chunk k
OutputsOf(k) == {o \in 1..Len(origin) : origin[o] = k}

\* the chunk list of the cleaned file
SavedChunks == output_file.data.chunkedPrompt.chunks

HasFenceCode(t) == Find(t, Rep(Tick, 3), 1) # 0

\* C1: every input chunk that carries driveDocument is in the output of the
\* cleaner exactly once and equal to the input chunk, field by field, whatever
\* remove_thinking and remove_code_blocks are, also when it is flagged
\* isThought or holds fenced code; and so it is in the file that is saved.
C1_FileReferenceKept ==
  /\ \A k \in Processed : "driveDocument" \in DOMAIN InputChunks[k] =>
       /\ Cardinality(OutputsOf(k)) = 1
       /\ \A o \in OutputsOf(k) : cleaned_chunks[o] = InputChunks[k]
  /\ (output_file.exists /\ "chunkedPrompt" \in DOMAIN input_file) =>
       \A k \in Processed : "driveDocument" \in DOMAIN InputChunks[k] =>
         \A o \in OutputsOf(k) : SavedChunks[o] = InputChunks[k]

\* a file was saved whose input had a driveDocument chunk flagged isThought
\* with fenced code, under remove_thinking and remove_code_blocks
C1_Witness ==
  /\ output_file.exists /\ "chunkedPrompt" \in DOMAIN input_file
  /\ remove_thinking /\ remove_code_blocks
  /\ \E k \in Processed :
       /\ "driveDocument" \in DOMAIN InputChunks[k]
       /\ Get(InputChunks[k], "isThought", FALSE)
       /\ HasFenceCode(InputChunks[k].text)
       /\ \E o \in OutputsOf(k) : SavedChunks[o] = InputChunks[k]

\* the text a cleaned chunk carries: its text, or its parts joined
ChunkText(chunk) == (ChunkToConversation(chunk)).text

\* C2: no chunk of the cleaned list, file references apart, has an empty text
\* (the text it has after extraction and code-block removal).
C2_NoEmptyTextChunk ==
  (output_file.exists /\ "chunkedPrompt" \in DOMAIN input_file) =>
    \A o \in 1..Len(SavedChunks) : "driveDocument" \notin DOMAIN SavedChunks[o] => Len(ChunkText(SavedChunks[o])) > 0

\* the records the loop of convert() has gone through
Rendered == IF output_md_file.exists THEN 1..(j - 1) ELSE {}

\* the text of record k is empty after the trim, or after thinking removal
EmptyAfterFiltering(k) ==
  LET role == lower(Get(conversations[k], "role", RoleUnknown))
      trimmed == strip(Get(conversations[k], "text", <<>>))
  IN \/ Len(trimmed) = 0
     \/ md_remove_thinking /\ role = RoleModel /\ Len(_remove_thinking_sections(trimmed)) = 0

\* C3: no section of the Markdown file has an empty or white-space-only body,
\* and a record whose text is empty after the trim or after thinking removal
\* has no section; for either setting of remove_thinking.
C3_NoEmptySection ==
  output_md_file.exists =>
    /\ \A n \in 1..Len(output_md_file.sections) : Len(strip(output_md_file.sections[n].text)) > 0
    /\ \A k \in Rendered : EmptyAfterFiltering(k) => \A n \in 1..Len(section_origin) : section_origin[n] # k

\* convert() has returned; a model record that held only a thinking section got
\* no section, and a section was written whose text fence normalization changed
C3_Witness ==
  /\ pc = "done" /\ output_md_file.exists /\ md_remove_thinking
  /\ \E k \in Rendered :
       /\ Len(strip(Get(conversations[k], "text", <<>>))) > 0
       /\ EmptyAfterFiltering(k)
       /\ \A n \in 1..Len(section_origin) : section_origin[n] # k
  /\ \E n \in 1..Len(section_origin) :
       /\ output_md_file.sections[n].text # strip(Get(conversations[section_origin[n]], "text", <<>>))
       /\ Len(strip(output_md_file.sections[n].text)) > 0

\* the texts of the fragments of a conversations entry, joined in order
RECURSIVE NestedText(_)
NestedText(chunks) == IF Len(chunks) = 0 THEN <<>> ELSE ChunkText(Head(chunks)) \o NestedText(Tail(chunks))

EntryText(entry) == IF "text" \in DOMAIN entry THEN entry.text ELSE IF "chunkedPrompt" \in DOMAIN entry THEN NestedText(entry.chunkedPrompt.chunks) ELSE <<>>

\* C8: a record fragmented into parts or nested chunks is reconstructed into one
\* record whose text is the fragments joined in order with no separator: the
\* record convert() loads for a chunk with parts has the parts joined, and the
\* cleaned output of a conversations document with a fragmented entry holds one
\* record per entry, each with the joined text.
C8_FragmentsReconstructed ==
  /\ (command = "pipeline" /\ pc = "render" /\ ~remove_thinking /\ ~remove_code_blocks /\ "chunkedPrompt" \in DOMAIN input_file) =>
       /\ Len(conversations) = Len(origin)
       /\ \A o \in 1..Len(origin) : conversations[o].text = ChunkText(InputChunks[origin[o]])
  /\ (output_file.exists /\ "conversations" \in DOMAIN input_file /\ \E k \in 1..Len(input_file.conversations) : "chunkedPrompt" \in DOMAIN input_file.conversations[k]) =>
       /\ "conversations" \in DOMAIN output_file.data
       /\ Len(output_file.data.conversations) = Len(input_file.conversations)
       /\ \A k \in 1..Len(input_file.conversations) : Get(output_file.data.conversations[k], "text", <<>>) = EntryText(input_file.conversations[k])

\* the document is of the conversations shape, not empty, and every record has
\* a text that is not blank and holds no fence
PlainConversations(data) ==
  /\ "conversations" \in DOMAIN data
  /\ Len(data.conversations) > 0
  /\ \A k \in 1..Len(data.conversations) :
       /\ "text" \in DOMAIN data.conversations[k]
       /\ Len(strip(data.conversations[k].text)) > 0
       /\ ~HasFenceCode(data.conversations[k].text)

\* C9: clean() given a conversations document of records with non-empty,
\* code-free texts writes a conversations list with as many records, in the
\* same order, with the same texts.
C9_ConversationsShapeCleaned ==
  (output_file.exists /\ PlainConversations(input_file)) =>
    /\ "conversations" \in DOMAIN output_file.data
    /\ Len(output_file.data.conversations) = Len(input_file.conversations)
    /\ \A k \in 1..Len(input_file.conversations) : output_file.data.conversations[k].text = input_file.conversations[k].text

\* the chunk has nothing _process_single_chunk would keep with remove_thinking off
HasNoContent(chunk) == "text" \notin DOMAIN chunk /\ ("parts" \notin DOMAIN chunk \/ \A n \in 1..Len(chunk.parts) : "text" \notin DOMAIN chunk.parts[n])

\* C10: with remove_thinking on, no chunk flagged isThought and without
\* driveDocument is in the output; with remove_thinking off, a chunk is left
\* out only when it has neither a text nor a part with a text, flagged or not.
C10_ThinkingChunks ==
  \A k \in Processed :
    /\ (remove_thinking /\ Get(InputChunks[k], "isThought", FALSE) /\ "driveDocument" \notin DOMAIN InputChunks[k]) => OutputsOf(k) = {}
    /\ (~remove_thinking /\ OutputsOf(k) = {}) => ("driveDocument" \notin DOMAIN InputChunks[k] /\ HasNoContent(InputChunks[k]))

\* a file was saved under remove_thinking: a flagged chunk with a text is not in
\* it and an unflagged chunk is
C10_Witness ==
  /\ output_file.exists /\ remove_thinking
  /\ \E k \in Processed : Get(InputChunks[k], "isThought", FALSE) /\ "text" \in DOMAIN InputChunks[k] /\ "driveDocument" \notin DOMAIN InputChunks[k] /\ OutputsOf(k) = {}
  /\ \E k \in Processed : ~Get(InputChunks[k], "isThought", FALSE) /\ OutputsOf(k) # {}

\* the chunk reaches _process_single_chunk and has parts and no text
PartsOnly(chunk) ==
  /\ "parts" \in DOMAIN chunk /\ "text" \notin DOMAIN chunk
  /\ "driveDocument" \notin DOMAIN chunk
  /\ ~(remove_thinking /\ Get(chunk, "isThought", FALSE))

\* the parts whose text is to be kept: those with a text, not flagged thought
\* when remove_thinking is on
KeptParts(chunk) == {n \in 1..Len(chunk.parts) : "text" \in DOMAIN chunk.parts[n] /\ ~(remove_thinking /\ Get(chunk.parts[n], "thought", FALSE))}

\* the o-th element of a set of numbers, in increasing order
Nth(S, o) == CHOOSE n \in S : Cardinality({m \in S : m < n}) = o - 1

\* the text kept of a part: as it is, or with its code blocks removed
KeptText(t) == IF remove_code_blocks THEN _remove_code_blocks(t) ELSE t

\* C11: of a chunk with parts and no text the cleaner keeps the texts of
\* exactly the parts not flagged thought when remove_thinking is on, of every
\* part when it is off, in the original order; a chunk all of whose parts are
\* filtered out is dropped.
C11_PartsFiltered ==
  \A k \in Processed : PartsOnly(InputChunks[k]) =>
    IF KeptParts(InputChunks[k]) = {} THEN OutputsOf(k) = {}
    ELSE /\ Cardinality(OutputsOf(k)) = 1
         /\ \A o \in OutputsOf(k) :
              /\ "parts" \in DOMAIN cleaned_chunks[o] /\ "text" \notin DOMAIN cleaned_chunks[o]
              /\ Len(cleaned_chunks[o].parts) = Cardinality(KeptParts(InputChunks[k]))
              /\ \A n \in 1..Len(cleaned_chunks[o].parts) :
                   cleaned_chunks[o].parts[n] = [text |-> KeptText(InputChunks[k].parts[Nth(KeptParts(InputChunks[k]), n)].text)]

\* a file was saved under remove_thinking: of a chunk of three parts with the
\* second flagged the first and the third are kept, and a chunk whose only part
\* is flagged is not in the output
C11_Witness ==
  /\ output_file.exists /\ remove_thinking
  /\ \E k \in Processed :
       /\ PartsOnly(InputChunks[k]) /\ Len(InputChunks[k].parts) = 3 /\ KeptParts(InputChunks[k]) = {1, 3}
       /\ \E o \in OutputsOf(k) : SavedChunks[o].parts = <<[text |-> PartHow], [text |-> PartYou]>>
  /\ \E k \in Processed :
       /\ PartsOnly(InputChunks[k]) /\ Len(InputChunks[k].parts) > 0 /\ KeptParts(InputChunks[k]) = {}
       /\ OutputsOf(k) = {}

NoTicks(t) == ~Contains(t, <<Tick>>)

\* the text holds a bold title, a blank line and content
HasThinkingTitle(t) == \E a \in 1..Len(t) : TitleEnd(t, a) # 0 /\ TitleEnd(t, a) <= Len(t)

\* C12: thinking-section removal is applied only to records whose role is model
\* and only when remove_thinking is on: a record of another role, and any
\* record when remove_thinking is off, has a section if its trimmed text is not
\* empty, and the section holds the trimmed text intact (with its fences
\* normalized when it has any).
C12_ThinkingOnlyModel ==
  (command # "clean" /\ pc \in {"render", "done"}) =>
    \A k \in Rendered :
      ((lower(Get(conversations[k], "role", RoleUnknown)) # RoleModel \/ ~md_remove_thinking) /\ Len(strip(Get(conversations[k], "text", <<>>))) > 0) =>
        \E n \in 1..Len(section_origin) :
          /\ section_origin[n] = k
          /\ output_md_file.sections[n].text =
               IF NoTicks(conversations[k].text) THEN strip(conversations[k].text) ELSE _normalize_code_blocks(strip(conversations[k].text))

\* convert() has returned under remove_thinking: a user record with a bold
\* title, a blank line and content has its whole text in its section, and a
\* model record with such a text has not
C12_Witness ==
  /\ pc = "done" /\ output_md_file.exists /\ md_remove_thinking
  /\ \E n \in 1..Len(section_origin) :
       /\ conversations[section_origin[n]].role = RoleUser
       /\ HasThinkingTitle(conversations[section_origin[n]].text)
       /\ output_md_file.sections[n].text = conversations[section_origin[n]].text
  /\ \E n \in 1..Len(section_origin) :
       /\ conversations[section_origin[n]].role = RoleModel
       /\ HasThinkingTitle(conversations[section_origin[n]].text)
       /\ output_md_file.sections[n].text # conversations[section_origin[n]].text

\* C15: after clean() get_stats of the cleaner reports the records that
\* survived cleaning: total their number, users those of role user, models
\* those of role model, one per chunk; for a conversations document of records
\* with non-empty, code-free texts (user, model, user gives 3, 2, 1) these are
\* the records of the input.
C15_CleanerStats ==
  output_file.exists =>
    /\ "chunkedPrompt" \in DOMAIN input_file =>
         /\ JSONCleaner_get_stats.total = Len(cleaned_chunks)
         /\ JSONCleaner_get_stats.users = CountRole(cleaned_chunks, RoleUser)
         /\ JSONCleaner_get_stats.models = CountRole(cleaned_chunks, RoleModel)
    /\ PlainConversations(input_file) =>
         /\ JSONCleaner_get_stats.total = Len(input_file.conversations)
         /\ JSONCleaner_get_stats.users = CountRole(input_file.conversations, RoleUser)
         /\ JSONCleaner_get_stats.models = CountRole(input_file.conversations, RoleModel)

\* the document has neither a conversations key nor chunkedPrompt.chunks
Unrecognized(data) == "conversations" \notin DOMAIN data /\ ~("chunkedPrompt" \in DOMAIN data /\ "chunks" \in DOMAIN data.chunkedPrompt)

\* C16: an input document with neither a conversations key nor
\* chunkedPrompt.chunks makes the entry point signal a format error instead of
\* producing an output: clean() raises and writes no cleaned file, convert()
\* raises and writes no Markdown file.
C16_FormatErrorSignalled ==
  Unrecognized(input_file) =>
    /\ command \in {"clean", "pipeline"} => (pc \in {"clean", "clean_error"} /\ ~output_file.exists)
    /\ command = "convert" => (pc \in {"convert", "error"} /\ ~output_md_file.exists)

\* C17: there is no partial success: when clean() or convert() ends in an
\* error, also one raised at a record in the middle of the list, its output
\* file is not written.
C17_NoPartialOutput ==
  /\ pc = "clean_error" => ~output_file.exists
  /\ pc = "error" => ~output_md_file.exists

\* the records of a document of one of the two shapes
RecordsOf(data) == IF "conversations" \in DOMAIN data THEN data.conversations ELSE data.chunkedPrompt.chunks

\* C14: the total the header of the Markdown file states is the number of
\* records of the input, the records skipped as empty or emptied by thinking
\* removal included, and the header is in the file before any section is.
C14_HeaderTotal ==
  (command # "clean" /\ pc \in {"render", "done"}) =>
    /\ output_md_file.exists
    /\ output_md_file.total = Len(RecordsOf(input_json_file))
    /\ Len(output_md_file.sections) <= j - 1
    /\ (pc = "render" /\ j = 1) => output_md_file.sections = <<>>

\* convert() has returned: the header states two records, a blank one and one
\* emptied by thinking removal, and no section was written
C14_Witness ==
  /\ pc = "done" /\ output_md_file.exists /\ output_md_file.total = 2
  /\ output_md_file.sections = <<>>
  /\ \E k \in Rendered : Len(strip(Get(conversations[k], "text", <<>>))) = 0
  /\ \E k \in Rendered : Len(strip(Get(conversations[k], "text", <<>>))) > 0 /\ EmptyAfterFiltering(k)

\* the texts of the parts of a chunk joined in order, those of the parts flagged
\* thought left out when skip_thought
VisibleText(chunk, skip_thought) ==
  LET shown == SelectSeq(chunk.parts, LAMBDA part : ~(skip_thought /\ Get(part, "thought", FALSE)))
  IN Join([n \in 1..Len(shown) |-> Get(shown[n], "text", <<>>)])

\* the chunk has parts and no text, and no part holds a backtick or an asterisk
PlainPartsChunk(chunk) ==
  /\ "text" \notin DOMAIN chunk /\ "parts" \in DOMAIN chunk
  /\ \A n \in 1..Len(chunk.parts) : NoTicks(Get(chunk.parts[n], "text", <<>>)) /\ ~Contains(Get(chunk.parts[n], "text", <<>>), <<"*">>)

\* C19: a converter built with remove_thinking on that reads a chunkedPrompt
\* document leaves the text of the parts flagged thought out of the Markdown
\* file, and one built with remove_thinking off puts it in: the section of a
\* chunk with parts holds the trimmed texts of the parts to show, and there is
\* no section when they are blank.
C19_ThoughtPartsExcluded ==
  (command # "clean" /\ pc \in {"render", "done"} /\ "conversations" \notin DOMAIN input_json_file) =>
    \A k \in Rendered : PlainPartsChunk(input_json_file.chunkedPrompt.chunks[k]) =>
      IF Len(strip(VisibleText(input_json_file.chunkedPrompt.chunks[k], md_remove_thinking))) = 0
      THEN \A n \in 1..Len(section_origin) : section_origin[n] # k
      ELSE \E n \in 1..Len(section_origin) :
             /\ section_origin[n] = k
             /\ output_md_file.sections[n].text = strip(VisibleText(input_json_file.chunkedPrompt.chunks[k], md_remove_thinking))

\* ------------------------------------------------------------------------
\* Properties of repeated calls of convert() (under SpecRerun)
\* ------------------------------------------------------------------------

\* the sections of the Markdown file written from records of the given role
SectionsOfRole(role) == {n \in 1..Len(section_origin) : lower(Get(conversations[section_origin[n]], "role", RoleUnknown)) = role}

RunAt(s, a, n) == a >= 1 /\ a <= Len(s) /\ (a = 1 \/ ~IsTick(s[a - 1])) /\ SkipTicks(s, a) - a = n

\* s is a text without fence, then a block opened by a run of exactly n >= 3
\* ticks at a and closed by the next run of n ticks, which is exactly n ticks
\* at p, then a text without fence
FencedSpan(s, a, n, p) ==
  /\ n >= 3 /\ RunAt(s, a, n) /\ RunAt(s, p, n)
  /\ Find(s, Rep(Tick, 3), 1) = a
  /\ Find(s, Rep(Tick, n), a + n) = p
  /\ Find(s, Rep(Tick, 3), p + n) = 0

\* the spans <<a, n, p>> of s: a is where the first run of s starts, n its length
\* and p where n ticks next stand, so there is one span at most
FencedSpans(s) ==
  LET a == Find(s, Rep(Tick, 3), 1)
      n == SkipTicks(s, a) - a
      p == Find(s, Rep(Tick, n), a + n)
  IN IF a = 0 THEN {} ELSE {w \in {<<a, n, p>>} : FencedSpan(s, w[1], w[2], w[3])}

\* the letters that follow the opening run
SpanTag(s, w) == Slice(s, w[1] + w[2], SkipLetters(s, w[1] + w[2]))

\* what stands between the tag and the closing run
SpanInner(s, w) == Slice(s, SkipLetters(s, w[1] + w[2]), w[3])

SpanBefore(s, w) == Slice(s, 1, w[1])

SpanAfter(s, w) == Slice(s, w[3] + w[2], Len(s) + 1)

\* C4: a fenced span whose tag, lower-cased, is a known language is removed
\* whatever its content, and the text before and after it stays as it was.
C4_TaggedSpanRemoved ==
  pc # "strip" =>
    \A w \in FencedSpans(text) :
      (Len(SpanTag(text, w)) > 0 /\ lower(SpanTag(text, w)) \in known_languages) => stripped = SpanBefore(text, w) \o SpanAfter(text, w)

\* a span tagged with a known language in upper case, with content, between
\* non-empty texts, was removed
C4_Witness ==
  /\ pc # "strip"
  /\ \E w \in FencedSpans(text) :
       /\ SpanTag(text, w) = <<"C">>
       /\ Len(strip(SpanInner(text, w))) > 0
       /\ Len(SpanBefore(text, w)) > 0 /\ Len(SpanAfter(text, w)) > 0
       /\ stripped = SpanBefore(text, w) \o SpanAfter(text, w)

\* C5: a fenced span without tag whose content is not classified as code is
\* replaced by its content with the white space around it trimmed: the ticks
\* of the fence are gone and the content is whole.
C5_ProseSpanUnfenced ==
  pc # "strip" =>
    \A w \in FencedSpans(text) :
      (Len(SpanTag(text, w)) = 0 /\ ~_is_code_content(strip(SpanInner(text, w)))) =>
        stripped = SpanBefore(text, w) \o strip(SpanInner(text, w)) \o SpanAfter(text, w)

\* an untagged span in the multi-line form, its content between newlines, was
\* replaced by the content alone
C5_Witness ==
  /\ pc # "strip"
  /\ \E w \in FencedSpans(text) :
       /\ Len(SpanTag(text, w)) = 0
       /\ SpanInner(text, w) = <<"\n", "x", "\n">>
       /\ Len(SpanBefore(text, w)) > 0
       /\ stripped = SpanBefore(text, w) \o <<"x">> \o SpanAfter(text, w)
       /\ ~Contains(stripped, <<Tick>>)

\* the removal marker the tests expect: six ideographs between brackets
RemovalMarker == <<"[", "zh", "zh", "zh", "zh", "zh", "zh", "]">>

\* C18: every fenced span that is removed, for its language tag or for its
\* content, is replaced by the removal marker, which stands in the output where
\* the block stood, the same for both reasons.
C18_RemovedSpanMarked ==
  pc # "strip" =>
    \A w \in FencedSpans(text) :
      ((Len(SpanTag(text, w)) > 0 /\ lower(SpanTag(text, w)) \in known_languages) \/ _is_code_content(strip(SpanInner(text, w)))) =>
        stripped = SpanBefore(text, w) \o RemovalMarker \o SpanAfter(text, w)

\* ------------------------------------------------------------------------
\* The chunk list of the cleaner as a sub-sequence of its input (under Spec)
\* ------------------------------------------------------------------------

\* the role and the token count of a chunk, each only when the chunk has it
BasicFields(chunk) == Restrict(chunk, {"role", "tokenCount"})

\* C23: the chunk list the cleaner builds, and the one it saves, is an
\* order-preserving sub-sequence of the input chunk list: every output chunk
\* has one source chunk, the sources are strictly increasing (none twice, none
\* out of order), and an output chunk has the role and the tokenCount of its
\* source, and has neither when the source has neither.
C23_OrderedSubSequence ==
  "chunkedPrompt" \in DOMAIN input_file =>
    /\ Len(origin) = Len(cleaned_chunks)
    /\ \A o \in 1..Len(origin) : origin[o] \in Processed
    /\ \A o1, o2 \in 1..Len(origin) : o1 < o2 => origin[o1] < origin[o2]
    /\ \A o \in 1..Len(cleaned_chunks) : BasicFields(cleaned_chunks[o]) = BasicFields(InputChunks[origin[o]])
    /\ output_file.exists => SavedChunks = cleaned_chunks

\* a saved file of one chunk, made from the second of two input chunks, with
\* its tokenCount; the first chunk was dropped
C23_Witness ==
  /\ command = "clean" /\ pc = "done" /\ "chunkedPrompt" \in DOMAIN input_file
  /\ Len(InputChunks) = 2 /\ origin = <<2>>
  /\ "driveDocument" \notin DOMAIN InputChunks[2] /\ "tokenCount" \in DOMAIN InputChunks[2]
  /\ Len(SavedChunks) = 1 /\ SavedChunks[1].tokenCount = InputChunks[2].tokenCount

\* ------------------------------------------------------------------------
\* The statistics of a pipeline run (under Spec)
\* ------------------------------------------------------------------------

\* C25: when a pipeline run has cleaned and converted, no number the converter
\* reports is above the number the cleaner reports: users, models and total,
\* however the role strings are spelled.
C25_MarkdownStatsBelowCleaned ==
  (command = "pipeline" /\ pc = "done") =>
    /\ MarkdownConverter_get_stats.users <= JSONCleaner_get_stats.users
    /\ MarkdownConverter_get_stats.models <= JSONCleaner_get_stats.models
    /\ MarkdownConverter_get_stats.total <= JSONCleaner_get_stats.total

\* ------------------------------------------------------------------------
\* The default output paths (under SpecPaths)
\* ------------------------------------------------------------------------

\* C24: with no output path given, the path of the cleaned JSON and the path
\* of the Markdown file are both different from the path of the input file,
\* whatever the name of the input file.
C24_OutputNotInput ==
  /\ pc \in {"paths_md", "paths_done"} => clean_output # input_path
  /\ pc = "paths_done" => md_output # input_path

\* ------------------------------------------------------------------------
\* Properties of _normalize_code_blocks (under SpecNormalize)
\* ------------------------------------------------------------------------

\* the first index >= q whose character is no letter and no digit
RECURSIVE SkipTag(_, _)
SkipTag(s, q) == IF q <= Len(s) /\ (IsLetter(s[q]) \/ s[q] \in DigitChars) THEN SkipTag(s, q + 1) ELSE q

\* s holds one whole-line fenced block and no other backtick: a run of exactly
\* n >= 3 ticks at the start of a line at a, a tag of letters and digits up to
\* t, a newline, a content, a newline, a run of exactly n ticks at p that ends
\* its line
WholeLineBlock(s, a, n, t, p) ==
  /\ n >= 3 /\ RunAt(s, a, n) /\ RunAt(s, p, n)
  /\ Find(s, <<Tick>>, 1) = a /\ Find(s, <<Tick>>, a + n) = p /\ Find(s, <<Tick>>, p + n) = 0
  /\ AtLineStart(s, a) /\ AtLineEnd(s, p + n)
  /\ t = SkipTag(s, a + n) /\ t <= Len(s) /\ s[t] = "\n"
  /\ p - 1 > t /\ s[p - 1] = "\n"

\* the blocks <<a, n, t, p>> of s: one at most
WholeLineBlocks(s) ==
  LET a == Find(s, <<Tick>>, 1)
      n == SkipTicks(s, a) - a
      t == SkipTag(s, a + n)
      p == Find(s, <<Tick>>, a + n)
  IN IF a = 0 \/ p = 0 THEN {} ELSE {w \in {<<a, n, t, p>>} : WholeLineBlock(s, w[1], w[2], w[3], w[4])}

BlockTag(s, w) == Slice(s, w[1] + w[2], w[3])

BlockContent(s, w) == Slice(s, w[3] + 1, w[4] - 1)

\* C21: every whole-line fenced block, whatever the length (3 or more) of its
\* delimiter runs, is rewritten into a block delimited by exactly 3 ticks, with
\* its tag in lower case and its content trimmed; the text around it stays.
C21_BlockNormalized ==
  pc = "normalized" =>
    \A w \in WholeLineBlocks(text) :
      normalized = Slice(text, 1, w[1]) \o Rep(Tick, 3) \o lower(BlockTag(text, w)) \o <<"\n">> \o strip(BlockContent(text, w)) \o <<"\n">> \o Rep(Tick, 3) \o Slice(text, w[4] + w[2], Len(text) + 1)

\* ------------------------------------------------------------------------
\* Properties of _remove_thinking_sections (under SpecThinking)
\* ------------------------------------------------------------------------

\* the final clean-up of what is left: runs of 3 or more newlines become 2, and
\* the white space at both ends goes
Tidy(t) == strip(CollapseRuns(t, "\n", <<"\n","\n">>, 1))

\* s holds exactly one bold title, at a, and a blank line follows it
OnlyTitleAt(s, a) == TitleEnd(s, a) # 0 /\ Cardinality({b \in 1..Len(s) : s[b] = "*"}) = 4

\* what is left of s, whose only title is at a, when its section is deleted:
\* the section runs to the first triple newline after the blank line, when
\* there is one; with no triple newline after the title it runs to the end of
\* the text or is no section
SectionDeleted(s, a) ==
  LET k == Find(s, <<"\n","\n","\n">>, TitleEnd(s, a))
  IN IF k # 0 THEN {Tidy(Slice(s, 1, a) \o Slice(s, k + 3, Len(s) + 1))}
     ELSE {Tidy(Slice(s, 1, a)), Tidy(s)}

\* the blank line after the title at a is not the start of a longer run of
\* newlines, or a triple newline follows it: which case s is in is plain
PlainSection(s, a) ==
  \/ Find(s, <<"\n","\n","\n">>, TitleEnd(s, a)) # 0
  \/ Find(s, <<"\n","\n","\n">>, TitleEnd(s, a) - 2) = 0

\* C22: in a text with one bold title followed by a blank line, the section
\* from the title to the first triple newline is deleted and the text before
\* and after it is kept; when no triple newline (and no other title) ends the
\* section, it is not cut short at a paragraph break: it goes whole, to the end
\* of the text, or stays whole.
C22_SectionDeletedWhole ==
  pc = "removed_thinking" =>
    \A a \in 1..Len(text) : (OnlyTitleAt(text, a) /\ PlainSection(text, a)) => without_thinking \in SectionDeleted(text, a)

\* ------------------------------------------------------------------------
\* Properties of the classifier (under SpecClassify)
\* ------------------------------------------------------------------------

\* the occurrences of the listed symbols in c: the pairs of a symbol and a place
SymbolOccurrences(c) == {w \in (1..Len(code_symbols)) \X (1..Len(c)) : OccursAt(c, code_symbols[w[1]], w[2])}

\* the places where the lines of c start
LineStarts(c) == {1} \cup {q + 1 : q \in {r \in 1..Len(c) : c[r] = "\n"}}

\* the lines of c that start with four spaces or a tab
IndentedStarts(c) == {q \in LineStarts(c) : OccursAt(c, <<"\t">>, q) \/ OccursAt(c, <<" ", " ", " ", " ">>, q)}

\* an opening parenthesis right after a character of the class, closed later
ParenAfter(c, InClass(_)) == \E q \in 2..Len(c) : InClass(c[q - 1]) /\ c[q] = "(" /\ \E r \in (q + 1)..Len(c) : c[r] = ")"

\* the rule the claim states
ClaimedCode(c) ==
  /\ Len(c) >= 10
  /\ \/ \E keyword \in code_keywords : Contains(lower(c), keyword)
     \/ Cardinality(SymbolOccurrences(c)) > 2 * Cardinality(LineStarts(c))
     \/ Cardinality(LineStarts(c)) > 3 /\ 2 * Cardinality(IndentedStarts(c)) > Cardinality(LineStarts(c))
     \/ ParenAfter(c, IsWord) /\ ~ParenAfter(c, IsCJK)

\* the content of a span: what stands between the tag and the closing run, trimmed
SpanContent(s, w) == strip(SpanInner(s, w))

\* C20: for a fenced span with no tag or a tag that is no known language the
\* classifier says code exactly when the content has 10 characters or more and
\* holds a keyword (in any case), or more than 2 symbols per line, or has more
\* than 3 lines of which more than half start with four spaces or a tab, or
\* holds a call and no parenthesis after an ideograph; the span is then
\* removed, else its content is kept.  A content of less than 10 characters is
\* never code.
C20_ClassifierRule ==
  pc # "strip" =>
    \A w \in FencedSpans(text) :
      (lower(SpanTag(text, w)) \notin known_languages) =>
        stripped = SpanBefore(text, w) \o (IF ClaimedCode(SpanContent(text, w)) THEN <<>> ELSE SpanContent(text, w)) \o SpanAfter(text, w)

\* a span with a tag that is no known language and a content of exactly 10
\* characters that holds a keyword was removed
C20_Witness ==
  /\ pc # "strip"
  /\ \E w \in FencedSpans(text) :
       /\ SpanTag(text, w) = <<"x">>
       /\ Len(SpanContent(text, w)) = 10
       /\ \E keyword \in code_keywords : Contains(lower(SpanContent(text, w)), keyword)
       /\ stripped = <<>>

\* the starts of the maximal runs of ticks of s
TickRuns(s) == {a \in 1..Len(s) : IsTick(s[a]) /\ (a = 1 \/ ~IsTick(s[a - 1]))}

\* s has two runs of ticks, an opening and a closing one, both of 3 ticks or
\* more and of different lengths
MismatchedFence(s) ==
  /\ Cardinality(TickRuns(s)) = 2
  /\ \A a \in TickRuns(s) : SkipTicks(s, a) - a >= 3
  /\ \E a, b \in TickRuns(s) : SkipTicks(s, a) - a # SkipTicks(s, b) - b

\* C6: a text whose opening and closing runs differ in length is not matched as
\* a block: _remove_code_blocks returns it unchanged.
C6_MismatchedFenceUnchanged == (pc # "strip" /\ MismatchedFence(text)) => stripped = text

\* C7: _remove_code_blocks is idempotent: a second pass changes nothing.
C7_StripIdempotent == pc = "stripped" => restripped = stripped

====
